---- MODULE Spec2Model ----
(***************************************************************************)
(* TITAN marketplace: the client cart engine (localStorage-backed cart,    *)
(* add / remove / change quantity / clear), the checkout form handler      *)
(* (submitOrder) and the server's POST /api/checkout verifier, which       *)
(* re-prices every line from the catalog of record and persists an order.  *)
(*                                                                         *)
(* Money is counted in mills (1/1000 of a dollar), so that a catalog price *)
(* may carry a half cent and the verifier's rounding to cents is visible.  *)
(* Every price used is a multiple of 1/8 dollar, hence exact as an IEEE    *)
(* double: the integer arithmetic below is the arithmetic the code does.   *)
(***************************************************************************)
EXTENDS Integers, Sequences, FiniteSets, TLC

VARIABLES
    cart,         \* the in-memory cart: sequence of cart lines
    storage,      \* the value of localStorage['titan_cart']
    allProducts,  \* the product list loaded by the last fetchProducts
    catalog,      \* the products collection (catalog of record)
    orders,       \* the orders collection (append only)
    call,         \* the POST /api/checkout handler invocation being served
    ui,           \* the checkout form: submitOrder's position and button
    payload,      \* the body a non-UI HTTP client posts (customer, items)
    quota,        \* localStorage: whether it is full, whether setItem threw
    fetches       \* the GET /api/products requests of fetchProducts in flight

vars ==
    <<cart, storage, allProducts, catalog, orders, call, ui, payload, quota,
      fetches>>

(***************************************************************************)
(* Bounds of the model.                                                    *)
(***************************************************************************)
MaxQty == 2      \* a cart line's quantity is not raised above this
MaxDelta == 2    \* changeQty is called with a delta in -MaxDelta..MaxDelta
MaxItems == 2    \* a posted payload has at most this many items
MaxPosts == 2    \* checkout requests made in one behaviour
MaxFetches == 2  \* product requests issued with responses pending

(***************************************************************************)
(* Products and the catalog of record.                                     *)
(***************************************************************************)
ProductIds == {"p1", "p2"}

\* A string that is no ObjectId (not 24 hex digits).
MalformedId == "zz"

NoProduct == [id |-> "", name |-> "", price |-> 0, image |-> ""]

\* The record of product p in its v-th edition (a catalog edit changes the
\* name, the price and the image).
ProductRecord(p, v) ==
    CASE p = "p1" /\ v = 1 -> [id |-> "p1", name |-> "Lamp", price |-> 10000, image |-> "lamp.png"]
      [] p = "p1" /\ v = 2 -> [id |-> "p1", name |-> "Lamp II", price |-> 10125, image |-> "lamp2.png"]
      [] p = "p2" /\ v = 1 -> [id |-> "p2", name |-> "Mug", price |-> 5500, image |-> "mug.png"]
      [] OTHER -> [id |-> p, name |-> "Mug XL", price |-> 6000, image |-> "mug2.png"]

Editions == {1, 2}

ProductRecords == {ProductRecord(p, v) : p \in ProductIds, v \in Editions}

(***************************************************************************)
(* Numbers as text. A string is a sequence of one-character strings.       *)
(***************************************************************************)
Digits == <<"0", "1", "2", "3", "4", "5", "6", "7", "8", "9">>

IsDigit(ch) == \E d \in 1..10 : Digits[d] = ch

DigitValue(ch) == (CHOOSE d \in 1..10 : Digits[d] = ch) - 1

RECURSIVE NatToString(_)
NatToString(n) ==
    IF n < 10 THEN <<Digits[n + 1]>>
    ELSE Append(NatToString(n \div 10), Digits[(n % 10) + 1])

\* The value of the longest prefix of s made of digits, after acc.
RECURSIVE DigitPrefix(_, _)
DigitPrefix(s, acc) ==
    IF s # <<>> /\ IsDigit(Head(s))
    THEN DigitPrefix(Tail(s), acc * 10 + DigitValue(Head(s)))
    ELSE acc

(***************************************************************************)
(* Cart persistence: localStorage['titan_cart'] holds JSON text.           *)
(***************************************************************************)
\* localStorage.getItem returns null: the key was never written.
Missing == [kind |-> "missing", lines |-> <<>>]

\* Text that JSON.parse rejects.
Garbage == [kind |-> "garbage", lines |-> <<>>]

\* JSON text of a falsy value: null, 0, false or "".
FalsyText == [kind |-> "falsy", lines |-> <<>>]

\* JSON text of a truthy value that is no array: {} or 5 or "abc".
ObjectText == [kind |-> "object", lines |-> <<>>]

\* A cart variable holding the parsed value of ObjectText. The value is no
\* array: it is written here as a one-element sequence that no array of
\* cart lines equals, and IsArray tells it apart.
NotAnArray ==
    <<[id |-> "{}", name |-> "", price |-> 0, image |-> "", quantity |-> 0]>>

\* Array.isArray-like test of the value the cart variable holds.
IsArray(c) == c # NotAnArray

\* JSON.stringify of one cart line: strings quoted as they are, numbers
\* written in decimal digits.
LineText(l) ==
    [id |-> l.id, name |-> l.name, price |-> NatToString(l.price),
     image |-> l.image, quantity |-> NatToString(l.quantity)]

\* JSON.parse of the text of one cart line.
ParseLine(t) ==
    [id |-> t.id, name |-> t.name, price |-> DigitPrefix(t.price, 0),
     image |-> t.image, quantity |-> DigitPrefix(t.quantity, 0)]

\* JSON.stringify writing every price with toFixed(2).
StringifyRoundingPrices(c) ==
    [kind |-> "array",
     lines |-> [i \in 1..Len(c) |->
                  [LineText(c[i]) EXCEPT
                     !.price = NatToString(((c[i].price + 5) \div 10) * 10)]]]

\* JSON.stringify(cart): the text of an array of the cart's lines, each with
\* its own fields in order.
Stringify(c) ==
    [kind |-> "array", lines |-> [i \in 1..Len(c) |-> LineText(c[i])]]

\* loadCart: JSON.parse(getItem) || [], and [] when the parse throws.
loadCart(stored) ==
    CASE stored.kind = "array" ->
           [i \in 1..Len(stored.lines) |-> ParseLine(stored.lines[i])]
      [] stored.kind = "object" -> NotAnArray
      [] OTHER -> <<>>

\* saveCart: the stored text after localStorage.setItem.
saveCart(c) == Stringify(c)

(***************************************************************************)
(* Cart engine.                                                            *)
(***************************************************************************)
\* Array.prototype.find on ids: the index of the first element of s whose
\* id is productId, 0 when there is none.
RECURSIVE FindFrom(_, _, _)
FindFrom(s, productId, i) ==
    IF i > Len(s) THEN 0
    ELSE IF s[i].id = productId THEN i
    ELSE FindFrom(s, productId, i + 1)

Find(s, productId) == FindFrom(s, productId, 1)

\* q || 1
OrOne(q) == IF q = 0 THEN 1 ELSE q

\* { ...product, quantity: 1 }
NewLine(product) ==
    [id |-> product.id, name |-> product.name, price |-> product.price,
     image |-> product.image, quantity |-> 1]

\* addToCart without the merge: a line is pushed whether or not one exists.
CartAfterAddAlwaysPush(c, product) == Append(c, NewLine(product))

\* addToCart merging by dropping the old line and pushing the raised one.
CartAfterAddMovingLine(c, product) ==
    LET k == Find(c, product.id)
    IN  IF k # 0
        THEN Append(SelectSeq(c, LAMBDA l : l.id # product.id),
                    [c[k] EXCEPT !.quantity = OrOne(c[k].quantity) + 1])
        ELSE Append(c, NewLine(product))

\* addToCart putting a new line first (cart.unshift).
CartAfterAddUnshift(c, product) ==
    LET k == Find(c, product.id)
    IN  IF k # 0
        THEN [c EXCEPT ![k].quantity = OrOne(c[k].quantity) + 1]
        ELSE <<NewLine(product)>> \o c

\* The cart after addToCart found `product` in allProducts.
CartAfterAdd(c, product) ==
    LET k == Find(c, product.id)
    IN  IF k # 0
        THEN [c EXCEPT ![k].quantity = OrOne(c[k].quantity) + 1]
        ELSE Append(c, NewLine(product))

\* Removal by cart.splice(cart.findIndex(...), 1): with no matching line the
\* index is -1 and the last line goes.
CartAfterRemoveSplice(c, productId) ==
    LET k == IF Find(c, productId) # 0 THEN Find(c, productId) ELSE Len(c)
    IN  [i \in 1..(IF Len(c) = 0 THEN 0 ELSE Len(c) - 1) |->
           IF i < k THEN c[i] ELSE c[i + 1]]

\* cart.filter(item => item._id !== productId)
CartAfterRemove(c, productId) == SelectSeq(c, LAMBDA l : l.id # productId)

\* changeQty deleting the line only below zero (item.quantity < 0).
CartAfterChangeQtyBelowZero(c, productId, delta) ==
    LET k == Find(c, productId)
        q == OrOne(c[k].quantity) + delta
        changed == [c EXCEPT ![k].quantity = q]
    IN  IF q < 0 THEN SelectSeq(changed, LAMBDA l : l.id # productId) ELSE changed

\* The cart after changeQty found a line for productId.
CartAfterChangeQty(c, productId, delta) ==
    LET k == Find(c, productId)
        q == OrOne(c[k].quantity) + delta
        changed == [c EXCEPT ![k].quantity = q]
    IN  IF q <= 0 THEN CartAfterRemove(changed, productId) ELSE changed

\* The sum with every line's amount rounded to the cent as it is added.
RECURSIVE SumLinesRoundingEach(_, _)
SumLinesRoundingEach(c, i) ==
    IF i > Len(c) THEN 0
    ELSE ((c[i].price * OrOne(c[i].quantity) + 5) \div 10) * 10
         + SumLinesRoundingEach(c, i + 1)

\* getCartTotal: sum of price * (quantity || 1), no rounding.
RECURSIVE SumLines(_, _)
SumLines(c, i) ==
    IF i > Len(c) THEN 0
    ELSE c[i].price * OrOne(c[i].quantity) + SumLines(c, i + 1)

getCartTotal(c) == SumLines(c, 1)

\* saveCart() with its setItem in a try/catch that ignores the error.
PersistSwallowing(c) ==
    /\ storage' = IF quota.full THEN storage ELSE saveCart(c)
    /\ quota' = [quota EXCEPT !.thrown = FALSE]

\* The call saveCart() at the end of a cart operation that made the cart c:
\* setItem stores the text, or throws QuotaExceededError when the storage is
\* full; nothing catches it and the operation ends by throwing it.
Persist(c) ==
    IF quota.full
    THEN storage' = storage /\ quota' = [quota EXCEPT !.thrown = TRUE]
    ELSE storage' = saveCart(c) /\ quota' = [quota EXCEPT !.thrown = FALSE]

\* addToCart looking for the cart's own line first and raising it whether or
\* not the product list has the product.
addToCartFromOwnLine(productId) ==
    LET k == Find(allProducts, productId)
        j == Find(cart, productId)
    IN  IF k = 0 /\ j = 0
        THEN UNCHANGED vars
        ELSE /\ IsArray(cart)
             /\ j # 0 => cart[j].quantity < MaxQty
             /\ cart' = IF j # 0
                        THEN [cart EXCEPT ![j].quantity = OrOne(@) + 1]
                        ELSE CartAfterAdd(cart, allProducts[k])
             /\ Persist(cart')
             /\ UNCHANGED <<allProducts, catalog, orders, call, ui, payload, fetches>>

addToCart(productId) ==
    LET k == Find(allProducts, productId)
    IN  IF k = 0
        THEN UNCHANGED vars           \* if (!product) return;
        ELSE /\ IsArray(cart)         \* else cart.find throws a TypeError
             /\ LET j == Find(cart, productId)
                IN  j # 0 => cart[j].quantity < MaxQty
             /\ cart' = CartAfterAdd(cart, allProducts[k])
             /\ Persist(cart')
             /\ UNCHANGED <<allProducts, catalog, orders, call, ui, payload, fetches>>

removeFromCart(productId) ==
    /\ IsArray(cart)                  \* else cart.filter throws a TypeError
    /\ cart' = CartAfterRemove(cart, productId)
    /\ Persist(cart')
    /\ UNCHANGED <<allProducts, catalog, orders, call, ui, payload, fetches>>

\* changeQty filtering the line out itself on the delete path and returning
\* without saveCart.
changeQtyUnsavedDelete(productId, delta) ==
    /\ IsArray(cart)
    /\ Find(cart, productId) # 0
    /\ cart[Find(cart, productId)].quantity + delta <= MaxQty
    /\ cart' = CartAfterChangeQty(cart, productId, delta)
    /\ IF Len(cart') < Len(cart)
       THEN UNCHANGED <<storage, quota>>
       ELSE Persist(cart')
    /\ UNCHANGED <<allProducts, catalog, orders, call, ui, payload, fetches>>

changeQty(productId, delta) ==
    /\ IsArray(cart)                  \* else cart.find throws a TypeError
    /\ Find(cart, productId) # 0      \* if (!item) return;
    /\ cart[Find(cart, productId)].quantity + delta <= MaxQty
    /\ cart' = CartAfterChangeQty(cart, productId, delta)
    /\ Persist(cart')
    /\ UNCHANGED <<allProducts, catalog, orders, call, ui, payload, fetches>>

clearCart ==
    /\ cart' = <<>>
    /\ Persist(cart')
    /\ UNCHANGED <<allProducts, catalog, orders, call, ui, payload, fetches>>

\* The page is loaded again: the script starts over with an empty product
\* list and let cart = loadCart().
reload ==
    /\ cart' = loadCart(storage)
    /\ allProducts' = <<>>
    /\ UNCHANGED <<storage, catalog, orders, call, ui, payload, quota, fetches>>

(***************************************************************************)
(* Product list and catalog of record.                                     *)
(***************************************************************************)
IdOrder == <<"p1", "p2">>

\* GET /api/products: the catalog's products that match the query (those
\* with an id in `matching`), in _id order.
Listing(cat, matching) ==
    SelectSeq([i \in 1..Len(IdOrder) |-> cat[IdOrder[i]]],
              LAMBDA r : r # NoProduct /\ r.id \in matching)

\* fetchProducts with no other request pending, from the request to
\* allProducts = products, taken as one step.
fetchProducts(matching) ==
    /\ allProducts' = Listing(catalog, matching)
    /\ UNCHANGED <<cart, storage, catalog, orders, call, ui, payload, quota, fetches>>

\* fetchProducts up to its await, called by filterByCategory, handleSearch
\* or handleSort while earlier requests may be pending. The server answers
\* the query as the catalog then is, or with an error status (ok = FALSE);
\* the response travels back for some time. `latest` records the answer to
\* the request issued last.
requestProducts(matching, ok) ==
    /\ fetches.issued < MaxFetches
    /\ LET products == Listing(catalog, matching)
       IN  fetches' =
             [inflight |-> fetches.inflight \cup
                             {[seq |-> fetches.issued + 1, ok |-> ok,
                               products |-> products]},
              issued |-> fetches.issued + 1,
              latest |-> [ok |-> ok, products |-> products]]
    /\ UNCHANGED <<cart, storage, allProducts, catalog, orders, call, ui, payload, quota>>

\* fetchProducts after its await, for the pending response r: allProducts =
\* products, or the catch when the status is not ok.
receiveProducts(r) ==
    /\ r \in fetches.inflight
    /\ allProducts' = IF r.ok THEN r.products ELSE allProducts
    /\ fetches' = [fetches EXCEPT !.inflight = @ \ {r}]
    /\ UNCHANGED <<cart, storage, catalog, orders, call, ui, payload, quota>>

\* The products whose record the catalog's owner edits in this model.
Editable == {"p1"}

\* The catalog's owner edits a product: new name, price and image.
editProduct(p) ==
    /\ catalog[p] = ProductRecord(p, 1)
    /\ catalog' = [catalog EXCEPT ![p] = ProductRecord(p, 2)]
    /\ UNCHANGED <<cart, storage, allProducts, orders, call, ui, payload, quota, fetches>>

\* The products the catalog's owner deletes in this model. The code treats
\* all products alike, so one edited and one deleted product stand for all.
Deletable == {"p2"}

\* The catalog's owner deletes a product; its id is never used again.
deleteProduct(p) ==
    /\ catalog[p] # NoProduct
    /\ catalog' = [catalog EXCEPT ![p] = NoProduct]
    /\ UNCHANGED <<cart, storage, allProducts, orders, call, ui, payload, quota, fetches>>

(***************************************************************************)
(* JavaScript values and conversions the verifier applies to the body.     *)
(* A string is a sequence of one-character strings.                        *)
(***************************************************************************)
Num(n) == [k |-> "num", n |-> n, s |-> <<>>]
Str(s) == [k |-> "str", n |-> 0, s |-> s]
Undefined == [k |-> "undef", n |-> 0, s |-> <<>>]

\* String(v), for an integer number, a string or undefined.
JsString(v) ==
    CASE v.k = "num" -> IF v.n < 0 THEN <<"-">> \o NatToString(-v.n) ELSE NatToString(v.n)
      [] v.k = "str" -> v.s
      [] OTHER -> <<"u", "n", "d", "e", "f", "i", "n", "e", "d">>

RECURSIVE SkipSpaces(_)
SkipSpaces(s) == IF s # <<>> /\ Head(s) = " " THEN SkipSpaces(Tail(s)) ELSE s

\* parseInt(v): [nan |-> TRUE] for NaN, else the integer.
parseInt(v) ==
    LET t == SkipSpaces(JsString(v))
        neg == t # <<>> /\ Head(t) = "-"
        u == IF t # <<>> /\ Head(t) \in {"-", "+"} THEN Tail(t) ELSE t
    IN  IF u = <<>> \/ ~IsDigit(Head(u))
        THEN [nan |-> TRUE, v |-> 0]
        ELSE [nan |-> FALSE, v |-> IF neg THEN -DigitPrefix(u, 0) ELSE DigitPrefix(u, 0)]

\* parseInt(quantity) || 1, without Math.max.
NormalizeQtyNoClamp(quantity) ==
    LET r == parseInt(quantity)
    IN  IF r.nan \/ r.v = 0 THEN 1 ELSE r.v

\* Math.min written for Math.max: Math.min(1, parseInt(quantity) || 1)
NormalizeQtyMin(quantity) ==
    LET r == parseInt(quantity)
        n == IF r.nan \/ r.v = 0 THEN 1 ELSE r.v
    IN  IF n < 1 THEN n ELSE 1

\* Math.max(1, parseInt(quantity) || 1)
NormalizeQty(quantity) ==
    LET r == parseInt(quantity)
        n == IF r.nan \/ r.v = 0 THEN 1 ELSE r.v
    IN  IF n > 1 THEN n ELSE 1

RECURSIVE TrimEnd(_)
TrimEnd(s) == IF s # <<>> /\ s[Len(s)] = " " THEN TrimEnd(SubSeq(s, 1, Len(s) - 1)) ELSE s

\* String.prototype.trim
Trim(s) == TrimEnd(SkipSpaces(s))

LowerOf(ch) == CASE ch = "A" -> "a" [] ch = "X" -> "x" [] OTHER -> ch

\* String.prototype.toLowerCase
ToLowerCase(s) == [i \in 1..Len(s) |-> LowerOf(s[i])]

\* Math.floor(serverTotal * 100) / 100
RoundDownToCents(mills) == (mills \div 10) * 10

\* Math.round(serverTotal * 100) / 100 on an amount in mills: to the nearest
\* cent, a half cent going up.
RoundToCents(mills) == ((mills + 5) \div 10) * 10

(***************************************************************************)
(* POST /api/checkout.                                                     *)
(***************************************************************************)
NoCustomer == [present |-> FALSE, name |-> <<>>, email |-> <<>>, address |-> <<>>]

NoItems == [isArray |-> FALSE, list |-> <<>>]

NoBody == [customer |-> NoCustomer, items |-> NoItems, total |-> 0]

NoOrder == [customer |-> [name |-> <<>>, email |-> <<>>, address |-> <<>>],
            items |-> <<>>, total |-> 0, status |-> ""]

NoResponse == [status |-> 0, error |-> "", id |-> "", orderId |-> 0, total |-> 0]

\* res.status(400 | 500).json({ error })
ErrorResponse(status, error, id) ==
    [status |-> status, error |-> error, id |-> id, orderId |-> 0, total |-> 0]

\* No request is being served.
IdleCall ==
    [pc |-> "idle", body |-> NoBody, i |-> 0, serverTotal |-> 0,
     verifiedItems |-> <<>>, order |-> NoOrder, res |-> NoResponse,
     found |-> <<>>, lookups |-> 0, inserts |-> 0]

\* db.collection('products').findOne({ _id }): the document or null.
findOne(cat, id) == IF id \in DOMAIN cat THEN cat[id] ELSE NoProduct

\* new ObjectId(String(id)) throws on a string that is not 24 hex digits.
ObjectIdThrows(id) == id = MalformedId

\* The payload guard without items.length === 0.
InvalidPayloadNoLength(body) == ~body.customer.present \/ ~body.items.isArray

\* The first two guards of the handler: the body is malformed.
InvalidPayload(body) ==
    \/ ~body.customer.present
    \/ ~body.items.isArray
    \/ Len(body.items.list) = 0

\* !customer.name alone.
MissingName(customer) == customer.name = <<>>

\* !customer.name || !customer.email
MissingCustomerFields(customer) == customer.name = <<>> \/ customer.email = <<>>

\* verifiedItems built from the fields the client sent.
VerifiedItemFromClient(product, item) ==
    [productId |-> product.id, name |-> item.name, price |-> item.price,
     image |-> item.image, quantity |-> NormalizeQty(item.quantity)]

\* One element of verifiedItems.
VerifiedItem(product, item) ==
    [productId |-> product.id, name |-> product.name, price |-> product.price,
     image |-> product.image, quantity |-> NormalizeQty(item.quantity)]

\* serverTotal += product.price * qty
LineAmount(product, item) == product.price * NormalizeQty(item.quantity)

\* The order document built once every item is verified.
BuildOrder(customer, verifiedItems, serverTotal) ==
    [customer |-> [name |-> Trim(customer.name),
                   email |-> ToLowerCase(Trim(customer.email)),
                   address |-> customer.address],
     items |-> verifiedItems,
     total |-> RoundToCents(serverTotal),
     status |-> "pending"]

\* The for loop's test before item c.i: another findOne, or, the items
\* exhausted, the order is built and insertOne is called.
Continue(c) ==
    IF c.i <= Len(c.body.items.list)
    THEN [c EXCEPT !.pc = "lookup"]
    ELSE [c EXCEPT !.pc = "insert",
                   !.order = BuildOrder(c.body.customer, c.verifiedItems, c.serverTotal)]

\* The handler starting its sum from the client's total.
ReceivedTrustingTotal(body) ==
    LET c == [IdleCall EXCEPT !.body = body]
    IN  IF InvalidPayload(body)
        THEN [c EXCEPT !.pc = "done",
                       !.res = ErrorResponse(400, "Invalid order payload", "")]
        ELSE IF MissingCustomerFields(body.customer)
        THEN [c EXCEPT !.pc = "done",
                       !.res = ErrorResponse(400, "Customer name and email are required", "")]
        ELSE Continue([c EXCEPT !.i = 1, !.serverTotal = body.total])

\* The handler up to its first await: destructure the body, validate it,
\* enter the loop. `found`, `lookups` and `inserts` record what the call did
\* with the stores.
Received(body) ==
    LET c == [IdleCall EXCEPT !.body = body]
    IN  IF InvalidPayload(body)
        THEN [c EXCEPT !.pc = "done",
                       !.res = ErrorResponse(400, "Invalid order payload", "")]
        ELSE IF MissingCustomerFields(body.customer)
        THEN [c EXCEPT !.pc = "done",
                       !.res = ErrorResponse(400, "Customer name and email are required", "")]
        ELSE Continue([c EXCEPT !.i = 1])

\* catch (err): res.status(500)
Failed(c) ==
    [c EXCEPT !.pc = "done",
              !.res = ErrorResponse(500, "Checkout failed. Please try again.", "")]

\* The loop body skipping an item whose product is not found (continue)
\* instead of answering 400.
AfterLookupSkippingMissing(c, product) ==
    LET item == c.body.items.list[c.i]
        looked == [c EXCEPT !.lookups = @ + 1]
    IN  IF product = NoProduct
        THEN Continue([looked EXCEPT !.i = @ + 1])
        ELSE Continue([looked EXCEPT
                 !.serverTotal = @ + LineAmount(product, item),
                 !.verifiedItems = Append(@, VerifiedItem(product, item)),
                 !.found = Append(@, product),
                 !.i = @ + 1])

\* The loop body for item c.i, findOne having answered `product`.
AfterLookup(c, product) ==
    LET item == c.body.items.list[c.i]
        looked == [c EXCEPT !.lookups = @ + 1]
    IN  IF product = NoProduct
        THEN [looked EXCEPT !.pc = "done",
                            !.res = ErrorResponse(400, "Product not found", item.id)]
        ELSE Continue([looked EXCEPT
                 !.serverTotal = @ + LineAmount(product, item),
                 !.verifiedItems = Append(@, VerifiedItem(product, item)),
                 !.found = Append(@, product),
                 !.i = @ + 1])

\* The next catalog lookup of the loop: the id is no ObjectId, or the
\* products collection fails, or findOne answers.
checkoutLookup ==
    /\ call.pc = "lookup"
    /\ LET item == call.body.items.list[call.i]
       IN  \/ /\ ObjectIdThrows(item.id)
              /\ call' = Failed(call)
           \/ /\ ~ObjectIdThrows(item.id)
              /\ call' = Failed([call EXCEPT !.lookups = @ + 1])
           \/ /\ ~ObjectIdThrows(item.id)
              /\ call' = AfterLookup(call, findOne(catalog, item.id))
    /\ UNCHANGED <<cart, storage, allProducts, catalog, orders, ui, payload, quota, fetches>>

\* res.status(201).json({ orderId, total, message })
Created(order, insertedId) ==
    [status |-> 201, error |-> "", id |-> "", orderId |-> insertedId, total |-> order.total]

\* insertOne replaced by an upsert keyed on the order's content: a document
\* equal to a stored one is not stored again.
InsertedDeduplicating(os, c) ==
    IF \E a \in 1..Len(os) : os[a].doc = c.order
    THEN os
    ELSE Append(os, [id |-> Len(os) + 1, doc |-> c.order, body |-> c.body, found |-> c.found])

\* The orders collection after insertOne(order): the document gets a fresh
\* _id; `body` and `found` keep the request and the catalog records it came
\* from, for the record.
Inserted(os, c) ==
    Append(os, [id |-> Len(os) + 1, doc |-> c.order, body |-> c.body, found |-> c.found])

\* insertOne answers or fails.
checkoutInsert ==
    /\ call.pc = "insert"
    /\ \/ /\ orders' = Inserted(orders, call)
          /\ call' = [call EXCEPT !.pc = "done", !.inserts = @ + 1,
                                  !.res = Created(call.order, Len(orders) + 1)]
       \/ /\ orders' = orders
          /\ call' = Failed([call EXCEPT !.inserts = @ + 1])
    /\ UNCHANGED <<cart, storage, allProducts, catalog, ui, payload, quota, fetches>>

(***************************************************************************)
(* The checkout form (submitOrder) and the requests it sends.              *)
(***************************************************************************)
\* `outstanding` counts the fetch calls of submitOrder that have not yet
\* settled into the success branch or into catch.
IdleUi ==
    [open |-> FALSE, disabled |-> FALSE, pc |-> "idle", body |-> NoBody,
     outcome |-> "none", outstanding |-> 0]

\* What the buyer may type in the name and e-mail fields.
NameInputs == {<<>>, <<" ">>, <<" ", "A", "l">>}
EmailInputs == {<<>>, <<"A", "@", "X", " ">>}

\* JSON.stringify of one cart line inside the request body.
ItemOfLine(l) ==
    [id |-> l.id, quantity |-> Num(l.quantity), name |-> l.name,
     price |-> l.price, image |-> l.image]

\* The body submitOrder posts.
RequestBody(name, email, c) ==
    [customer |-> [present |-> TRUE, name |-> name, email |-> email, address |-> <<>>],
     items |-> [isArray |-> TRUE, list |-> [i \in 1..Len(c) |-> ItemOfLine(c[i])]],
     total |-> getCartTotal(c)]

openCheckout ==
    /\ ~ui.open
    /\ Len(cart) # 0                  \* else toast 'Your cart is empty!'
    /\ IsArray(cart)                  \* else cart.map throws a TypeError
    /\ ui' = [ui EXCEPT !.open = TRUE]
    /\ UNCHANGED <<cart, storage, allProducts, catalog, orders, call, payload, quota, fetches>>

\* submitOrder without btn.disabled = true.
submitOrderNotDisabling(nameInput, emailInput) ==
    /\ ui.open /\ ~ui.disabled
    /\ LET name == Trim(nameInput)
           email == Trim(emailInput)
       IN  IF name = <<>> \/ email = <<>>
           THEN ui' = [ui EXCEPT !.outcome = "invalid"]
           ELSE ui' = [ui EXCEPT !.pc = "sent",
                                 !.body = RequestBody(name, email, cart),
                                 !.outcome = "none",
                                 !.outstanding = @ + 1]
    /\ UNCHANGED <<cart, storage, allProducts, catalog, orders, call, payload, quota, fetches>>

\* submitOrder up to its await: validate the form, disable the button, send.
\* The form is submitted through its submit button, which the browser
\* ignores while it is disabled.
submitOrder(nameInput, emailInput) ==
    /\ ui.open /\ ~ui.disabled
    /\ LET name == Trim(nameInput)
           email == Trim(emailInput)
       IN  IF name = <<>> \/ email = <<>>
           THEN ui' = [ui EXCEPT !.outcome = "invalid"]   \* toast, return
           ELSE ui' = [ui EXCEPT !.disabled = TRUE, !.pc = "sent",
                                 !.body = RequestBody(name, email, cart),
                                 !.outcome = "none",
                                 !.outstanding = @ + 1]
    /\ UNCHANGED <<cart, storage, allProducts, catalog, orders, call, payload, quota, fetches>>

\* The request reaches the server, which runs the handler to its first await.
checkoutReceive ==
    /\ ui.pc = "sent"
    /\ call.pc \in {"idle", "done"}
    /\ call' = Received(ui.body)
    /\ ui' = [ui EXCEPT !.pc = "waiting"]
    /\ UNCHANGED <<cart, storage, allProducts, catalog, orders, payload, quota, fetches>>

\* catch without the finally block: the button stays disabled.
CaughtLeavingDisabled(u) ==
    [u EXCEPT !.pc = "idle", !.body = NoBody,
              !.outcome = "failed", !.outstanding = @ - 1]

\* catch (err) { showToast } finally { btn.disabled = false }
Caught(u) ==
    [u EXCEPT !.pc = "idle", !.disabled = FALSE, !.body = NoBody,
              !.outcome = "failed", !.outstanding = @ - 1]

\* The success branch and finally: closeCheckout, showConfirmation, enable.
Succeeded(u) ==
    [u EXCEPT !.pc = "idle", !.disabled = FALSE, !.body = NoBody, !.open = FALSE,
              !.outcome = "success", !.outstanding = @ - 1]

\* fetch rejects: the request never arrived, or its response was lost.
transportError ==
    /\ \/ ui.pc = "sent" /\ call' = call
       \/ ui.pc = "waiting" /\ call.pc = "done" /\ call' = IdleCall
    /\ ui' = Caught(ui)
    /\ UNCHANGED <<cart, storage, allProducts, catalog, orders, payload, quota, fetches>>

\* submitOrder with clearCart() moved into finally.
handleResponseClearingAlways ==
    /\ ui.pc = "waiting" /\ call.pc = "done"
    /\ call' = IdleCall
    /\ ui' = IF call.res.status # 201 THEN Caught(ui) ELSE Succeeded(ui)
    /\ cart' = <<>>
    /\ Persist(cart')
    /\ UNCHANGED <<allProducts, catalog, orders, payload, fetches>>

\* The response arrives: !res.ok throws into catch; else the success branch,
\* which closes the form and clears the cart. When clearCart's saveCart
\* throws there, the same catch takes it.
handleResponse ==
    /\ ui.pc = "waiting" /\ call.pc = "done"
    /\ call' = IdleCall
    /\ IF call.res.status # 201
       THEN /\ ui' = Caught(ui)
            /\ UNCHANGED <<cart, storage, quota>>
       ELSE /\ ui' = IF quota.full
                     THEN [Caught(ui) EXCEPT !.open = FALSE]
                     ELSE Succeeded(ui)
            /\ cart' = <<>>
            /\ Persist(cart')
    /\ UNCHANGED <<allProducts, catalog, orders, payload, fetches>>

(***************************************************************************)
(* A client other than the UI posting to /api/checkout.                    *)
(***************************************************************************)
NoPayload == [customer |-> NoCustomer, items |-> NoItems, posts |-> 0]

\* Item fields a client may claim; the verifier must not use them.
RawItem(id, quantity) ==
    [id |-> id, quantity |-> quantity, name |-> "Forged", price |-> 10,
     image |-> "forged.png"]

RawItems ==
    {RawItem("p1", Num(2)), RawItem("p1", Str(<<"a", "b", "c">>)),
     RawItem("p2", Num(0)),
     RawItem("p2", Str(<<" ", "3", "x">>)), RawItem("p2", Num(-12)),
     RawItem(MalformedId, Num(1))}

RawCustomers ==
    {NoCustomer}
    \cup {[present |-> TRUE, name |-> n, email |-> e, address |-> <<>>] :
            n \in {<<>>, <<" ", "A", "l">>}, e \in EmailInputs}

RawItemLists ==
    {NoItems} \cup
    {[isArray |-> TRUE, list |-> l] : l \in UNION {[1..n -> RawItems] : n \in 0..MaxItems}}

\* The total a client may claim.
ClientTotals == {1000, 49980}

\* The client posts its payload with some total; the handler runs to its
\* first await.
post(total) ==
    /\ payload.posts < MaxPosts
    /\ payload.items # NoItems \/ payload.customer # NoCustomer
    /\ call.pc \in {"idle", "done"}
    /\ call' = Received([customer |-> payload.customer, items |-> payload.items,
                         total |-> total])
    /\ payload' = [payload EXCEPT !.posts = @ + 1]
    /\ UNCHANGED <<cart, storage, allProducts, catalog, orders, ui, quota, fetches>>

(***************************************************************************)
(* Specifications.                                                         *)
(***************************************************************************)
\* localStorage with room left, no setItem having thrown.
RoomLeft == [full |-> FALSE, thrown |-> FALSE]

\* No product request in flight, none issued yet.
NoFetches == [inflight |-> {}, issued |-> 0, latest |-> [ok |-> FALSE, products |-> <<>>]]

InitStores ==
    /\ storage = Missing
    /\ cart = loadCart(storage)
    /\ allProducts = <<>>
    /\ catalog = [p \in ProductIds |-> ProductRecord(p, 1)]
    /\ orders = <<>>
    /\ call = IdleCall
    /\ ui = IdleUi
    /\ quota = RoomLeft
    /\ fetches = NoFetches

Init == InitStores /\ payload = NoPayload

InitVerifier ==
    /\ InitStores
    /\ payload \in {[customer |-> c, items |-> l, posts |-> 0] :
                      c \in RawCustomers, l \in RawItemLists}

Deltas == (-MaxDelta)..MaxDelta

CartStep ==
    \/ \E p \in ProductIds : addToCart(p)
    \/ \E p \in ProductIds : removeFromCart(p)
    \/ \E p \in ProductIds, d \in Deltas : changeQty(p, d)
    \/ clearCart

CatalogStep ==
    \/ \E p \in Editable : editProduct(p)
    \/ \E p \in Deletable : deleteProduct(p)

\* The cart engine with the product list it takes its snapshots from.
NextCart ==
    \/ CartStep
    \/ reload
    \/ \E m \in SUBSET ProductIds : fetchProducts(m)
    \/ CatalogStep

SpecCart == Init /\ [][NextCart]_vars

\* What the page may find under its key when it loads: nothing, text that
\* does not parse, well-formed text of the wrong shape, a saved cart.
StoredValues ==
    {Missing, Garbage, FalsyText, ObjectText,
     Stringify(<<NewLine(ProductRecord("p1", 1))>>)}

InitRestore ==
    /\ storage \in StoredValues
    /\ cart = loadCart(storage)
    /\ allProducts = <<>>
    /\ catalog = [p \in ProductIds |-> ProductRecord(p, 1)]
    /\ orders = <<>>
    /\ call = IdleCall
    /\ ui = IdleUi
    /\ payload = NoPayload
    /\ quota = RoomLeft
    /\ fetches = NoFetches

\* The cart engine on a page that loads with any stored value.
SpecRestore == InitRestore /\ [][NextCart]_vars

InitQuota ==
    /\ storage = Missing
    /\ cart = loadCart(storage)
    /\ allProducts = <<>>
    /\ catalog = [p \in ProductIds |-> ProductRecord(p, 1)]
    /\ orders = <<>>
    /\ call = IdleCall
    /\ ui = IdleUi
    /\ payload = NoPayload
    /\ quota \in {[full |-> f, thrown |-> FALSE] : f \in BOOLEAN}
    /\ fetches = NoFetches

\* The cart engine in a browser whose localStorage may have no room left.
SpecQuota == InitQuota /\ [][NextCart]_vars

\* The verifier serving one client's payload, posted up to MaxPosts times.
NextVerifier ==
    \/ \E t \in ClientTotals : post(t)
    \/ checkoutLookup
    \/ checkoutInsert
    \/ CatalogStep

SpecVerifier == InitVerifier /\ [][NextVerifier]_vars

\* Names and e-mails a client may put in the customer record: empty, made
\* of whitespace only, or with text.
CustomerNames == {<<>>, <<" ">>, <<" ", "A", "l">>}
CustomerEmails == {<<>>, <<" ">>, <<"A", "@", "X", " ">>}

InitCustomer ==
    /\ InitStores
    /\ payload \in
         {[customer |-> [present |-> TRUE, name |-> n, email |-> e, address |-> <<>>],
           items |-> [isArray |-> TRUE, list |-> <<i>>],
           posts |-> 0] :
            n \in CustomerNames, e \in CustomerEmails,
            i \in {RawItem("p1", Num(2)), RawItem(MalformedId, Num(1))}}

\* The verifier serving short payloads with every kind of customer record.
SpecCustomer == InitCustomer /\ [][NextVerifier]_vars

\* The shop: cart, checkout form and server, until the buyer's first order is
\* stored.
Next ==
    \/ CartStep
    \/ fetchProducts(ProductIds)
    \/ CatalogStep
    \/ openCheckout
    \/ orders = <<>> /\ \E n \in NameInputs, e \in EmailInputs : submitOrder(n, e)
    \/ checkoutReceive
    \/ checkoutLookup
    \/ checkoutInsert
    \/ transportError
    \/ handleResponse

Spec == Init /\ [][Next]_vars

\* The product list under overlapping requests, the catalog changing.
NextFetch ==
    \/ \E m \in SUBSET ProductIds, ok \in BOOLEAN : requestProducts(m, ok)
    \/ \E r \in fetches.inflight : receiveProducts(r)
    \/ CatalogStep

SpecFetch == Init /\ [][NextFetch]_vars

\* Carts the buyer may have built before going to the checkout.
LiveCarts ==
    {<<[NewLine(ProductRecord("p1", 1)) EXCEPT !.quantity = q]>> : q \in 1..MaxQty}
    \cup {<<NewLine(ProductRecord("p2", 1)), NewLine(ProductRecord("p1", 1))>>}

InitLive ==
    /\ cart \in LiveCarts
    /\ storage = saveCart(cart)
    /\ catalog = [p \in ProductIds |-> ProductRecord(p, 1)]
    /\ allProducts = Listing(catalog, ProductIds)
    /\ orders = <<>>
    /\ call = IdleCall
    /\ ui = IdleUi
    /\ payload = NoPayload
    /\ quota = RoomLeft
    /\ fetches = NoFetches

\* The checkout of a cart already built: form, network and server.
NextLive ==
    \/ CatalogStep
    \/ openCheckout
    \/ orders = <<>> /\ \E n \in NameInputs, e \in EmailInputs : submitOrder(n, e)
    \/ checkoutReceive
    \/ checkoutLookup
    \/ checkoutInsert
    \/ transportError
    \/ handleResponse

\* A request that was sent reaches the server or fails in transport; the
\* server's awaits on the stores settle (the driver answers or times out);
\* the promise of fetch settles with the response or with an error.
SpecLive ==
    /\ InitLive /\ [][NextLive]_vars
    /\ WF_vars(checkoutReceive \/ transportError)
    /\ WF_vars(checkoutLookup)
    /\ WF_vars(checkoutInsert)
    /\ WF_vars(handleResponse \/ transportError)

(***************************************************************************)
(* Properties of the cart engine.                                          *)
(***************************************************************************)
\* C1: from the empty cart, after any sequence of add, remove, changeQty and
\* clear, no two lines of the cart carry the same product identifier.
C1_OneLinePerProduct ==
    \A i, j \in 1..Len(cart) : cart[i].id = cart[j].id => i = j

\* Two products in the cart, one of them added more than once.
C1_Witness ==
    /\ Len(cart) = 2
    /\ \E i \in 1..Len(cart) : cart[i].quantity > 1

\* C10: addToCart on a product that has a line raises that line's quantity
\* by exactly 1 and leaves the cart otherwise as it was (no line appended);
\* on a product without a line it appends exactly one line, of quantity 1,
\* after the existing lines.
C10_AddMergesOrAppends ==
    [][\A p \in ProductIds :
         addToCart(p) =>
           LET k == Find(cart, p)
           IN  IF k # 0
               THEN cart' = [cart EXCEPT ![k].quantity = cart[k].quantity + 1]
               ELSE /\ Len(cart') = Len(cart) + 1
                    /\ SubSeq(cart', 1, Len(cart)) = cart
                    /\ cart'[Len(cart')].id = p
                    /\ cart'[Len(cart')].quantity = 1]_vars

\* The same product added twice to a cart that lacked it, after another
\* product: one line of quantity 2, in its place.
C10_Witness ==
    /\ Len(cart) = 2
    /\ cart[1].id = "p2" /\ cart[1].quantity = 2
    /\ cart[2].id = "p1" /\ cart[2].quantity = 1

\* The sequence c without its k-th element.
WithoutIndex(c, k) ==
    [i \in 1..(Len(c) - 1) |-> IF i < k THEN c[i] ELSE c[i + 1]]

\* C11: changeQty(id, delta) on a line of quantity q removes that line, and
\* only it, when q + delta <= 0; otherwise it sets that line's quantity to
\* q + delta in place; every other line stays as it was, where it was.
C11_ChangeQtyUpdatesOrDeletes ==
    [][\A p \in ProductIds, d \in Deltas :
         changeQty(p, d) =>
           LET k == Find(cart, p)
               q == cart[k].quantity
           IN  IF q + d <= 0
               THEN cart' = WithoutIndex(cart, k)
               ELSE cart' = [cart EXCEPT ![k].quantity = q + d]]_vars

\* A cart of two lines on which changeQty can take both paths: the first
\* line, of quantity 2, is lowered in place by -1 and deleted by -2.
C11_Witness ==
    /\ Len(cart) = 2
    /\ cart[1].id = "p1" /\ cart[1].quantity = 2
    /\ cart[2].id = "p2" /\ cart[2].quantity = 1

\* The sum of price times quantity over the first n lines of c.
RECURSIVE LineSum(_, _)
LineSum(c, n) ==
    IF n = 0 THEN 0 ELSE LineSum(c, n - 1) + c[n].price * c[n].quantity

\* C12: after any sequence of cart operations and reloads, getCartTotal is
\* exactly the sum of snapshot price times quantity over the cart's lines,
\* and so is the total of the cart restored from storage.
C12_TotalIsExactSum ==
    /\ getCartTotal(cart) = LineSum(cart, Len(cart))
    /\ getCartTotal(loadCart(storage)) = LineSum(cart, Len(cart))

\* After a reload, a cart of two lines, one of them a snapshot priced with a
\* half cent (10.125) and taken twice.
C12_Witness ==
    /\ allProducts = <<>>
    /\ Len(cart) = 2
    /\ \E i \in 1..2 : cart[i].price = 10125 /\ cart[i].quantity = 2

\* C13: every cart the engine reaches is restored by loadCart from what
\* saveCart writes for it: same lines, same order, same snapshots and
\* quantities.
C13_RoundTrip == loadCart(saveCart(cart)) = cart

\* A cart of two lines, the second a snapshot priced 10.125.
C13_Witness ==
    /\ Len(cart) = 2
    /\ cart[1].id = "p2"
    /\ cart[2].price = 10125

\* C14: loadCart yields an empty cart for every stored value that is not
\* the text of an array of cart lines, and the cart the page holds is always
\* an array, on which the engine's operations work.
C14_RestoreDegradesToEmpty ==
    /\ storage.kind # "array" => loadCart(storage) = <<>>
    /\ IsArray(loadCart(storage))
    /\ IsArray(cart)

\* C15: the cart restored from storage is the cart in memory, at every point
\* between cart operations.
C15_WriteThrough == loadCart(storage) = cart

\* The stored text of a cart brought down to one line of quantity 2 whose
\* product the list no longer shows.
C15_Witness ==
    /\ storage.kind = "array"
    /\ Len(storage.lines) = 1
    /\ storage.lines[1].quantity = <<"2">>
    /\ Find(allProducts, storage.lines[1].id) = 0

\* C20: removeFromCart(id) leaves the cart as it is when no line matches,
\* removes the matching line and only it otherwise, and removing again from
\* the result changes nothing.
C20_RemoveDeletesOneLine ==
    [][\A p \in ProductIds :
         removeFromCart(p) =>
           LET k == Find(cart, p)
           IN  /\ cart' = IF k = 0 THEN cart ELSE WithoutIndex(cart, k)
               /\ CartAfterRemove(cart', p) = cart']_vars

\* A cart of one line, p2: removing p1 from it must change nothing, removing
\* p2 empties it.
C20_Witness ==
    /\ Len(cart) = 1
    /\ cart[1].id = "p2"
    /\ Len(allProducts) = 2

\* Every line of c has an integer quantity of at least 1.
QuantitiesValid(c) ==
    \A i \in 1..Len(c) : c[i].quantity \in Nat /\ c[i].quantity >= 1

\* C21: from the empty cart, between cart operations every line of the cart
\* in memory and of the cart stored has an integer quantity >= 1, whatever
\* deltas changeQty is given.
C21_QuantityAtLeastOne ==
    /\ QuantitiesValid(cart)
    /\ QuantitiesValid(loadCart(storage))

\* A cart whose only line, priced 10.125, is at quantity 1: the next
\* changeQty by -1 or less must delete it.
C21_Witness ==
    /\ Len(cart) = 1
    /\ cart[1].quantity = 1 /\ cart[1].price = 10125

\* A cart operation on a full storage leaves the cart in memory as the
\* operation makes it.
CartMutated ==
    \/ \E p \in ProductIds :
          /\ Find(allProducts, p) # 0
          /\ cart' = CartAfterAdd(cart, allProducts[Find(allProducts, p)])
    \/ \E p \in ProductIds : cart' = CartAfterRemove(cart, p)
    \/ \E p \in ProductIds, d \in Deltas :
          Find(cart, p) # 0 /\ cart' = CartAfterChangeQty(cart, p, d)
    \/ cart' = <<>>

\* C23: when localStorage is full, every cart operation that reaches
\* saveCart still changes the cart in memory as it does otherwise, leaves
\* the stored value alone, and ends by throwing setItem's error to its
\* caller.
C23_PersistFailureReported ==
    [][ (quota.full /\ CartStep) =>
          (quota'.thrown /\ storage' = storage /\ CartMutated) ]_vars

\* Two lines in memory, nothing stored, the last saveCart having thrown.
C23_Witness ==
    /\ quota.full /\ quota.thrown
    /\ Len(cart) = 2
    /\ storage = Missing

\* The product identifiers of the lines of c, in order.
Ids(c) == [i \in 1..Len(c) |-> c[i].id]

C28_AddOfUnlistedIsNoOp ==
    [][\A p \in ProductIds :
         (Find(allProducts, p) = 0 /\ addToCart(p)) =>
           (cart' = cart /\ storage' = storage)]_vars

\* The cart holds a line for p2 while the loaded product list shows only p1.
C28_Witness ==
    /\ Find(cart, "p2") # 0
    /\ Find(allProducts, "p2") = 0
    /\ Find(allProducts, "p1") # 0

(***************************************************************************)
(* Properties of the checkout verifier.                                    *)
(***************************************************************************)
\* The call being served has answered.
Answered == call.pc = "done"

\* The sum, over the lines of a stored order, of the price of the catalog
\* record found for the line times the line's quantity.
RECURSIVE CatalogSum(_, _)
CatalogSum(o, i) ==
    IF i > Len(o.doc.items) THEN 0
    ELSE o.found[i].price * o.doc.items[i].quantity + CatalogSum(o, i + 1)

\* An amount in mills rounded to the cent, the half cent upwards.
HalfUp(mills) ==
    IF mills % 10 >= 5 THEN mills - (mills % 10) + 10 ELSE mills - (mills % 10)

\* C2: two stored orders that come from requests with the same customer and
\* the same items, verified against the same catalog records, have the same
\* total whatever totals the two requests claimed; and the total a call
\* returns is the total of the order it stored.
C2_ClientTotalIgnored ==
    /\ \A a, b \in 1..Len(orders) :
         ( /\ orders[a].body.customer = orders[b].body.customer
           /\ orders[a].body.items = orders[b].body.items
           /\ orders[a].found = orders[b].found )
         => orders[a].doc.total = orders[b].doc.total
    /\ (Answered /\ call.res.status = 201)
         => call.res.total = orders[call.res.orderId].doc.total

\* Two orders stored from the same payload and the same catalog records,
\* the requests claiming different totals.
C2_Witness ==
    \E a, b \in 1..Len(orders) :
        /\ orders[a].body.total # orders[b].body.total
        /\ orders[a].body.items = orders[b].body.items
        /\ orders[a].found = orders[b].found

\* The call failed in a store: a findOne or the insertOne threw.
StoreFailed ==
    /\ Answered /\ call.res.status = 500
    /\ \/ call.inserts > 0
       \/ call.lookups > Len(call.found)

\* Item j of the call's request was not verified and its id resolves to no
\* catalog product.
UnknownItem(j) ==
    /\ j \in (Len(call.found) + 1)..Len(call.body.items.list)
    /\ findOne(catalog, call.body.items.list[j].id) = NoProduct

\* C3: a checkout request that passes validation and has an item whose
\* product identifier is not in the catalog stores no order, and, when no
\* store failed, its error response names the offending identifier.
C3_UnknownProductNamed ==
    ( /\ Answered
      /\ ~InvalidPayload(call.body) /\ ~MissingCustomerFields(call.body.customer)
      /\ \E j \in 1..Len(call.body.items.list) : UnknownItem(j) )
    => /\ call.inserts = 0
       /\ ~StoreFailed =>
            /\ call.res.status = 400
            /\ call.res.error = "Product not found"
            /\ \E j \in 1..Len(call.body.items.list) :
                 UnknownItem(j) /\ call.res.id = call.body.items.list[j].id

\* C4: the total of every stored order is the sum of catalog price at
\* lookup time times the line's quantity, rounded half-up to the cent, and
\* a successful call returns that total.
C4_TotalIsCatalogSum ==
    /\ \A a \in 1..Len(orders) :
         orders[a].doc.total = HalfUp(CatalogSum(orders[a], 1))
    /\ (Answered /\ call.res.status = 201)
         => call.res.total = HalfUp(CatalogSum(orders[call.res.orderId], 1))

\* An order whose sum carried a half cent, and one over two lines.
C4_Witness ==
    /\ \E a \in 1..Len(orders) : CatalogSum(orders[a], 1) % 10 = 5
    /\ \E a \in 1..Len(orders) : Len(orders[a].doc.items) = 2

\* C5: every line of every stored order carries the name, the unit price and
\* the image of the catalog record found for its identifier, not the values
\* the request gave.
C5_LinesFromCatalog ==
    \A a \in 1..Len(orders) :
        /\ Len(orders[a].doc.items) = Len(orders[a].body.items.list)
        /\ \A i \in 1..Len(orders[a].doc.items) :
             LET line == orders[a].doc.items[i]
                 rec == orders[a].found[i]
             IN  /\ rec \in ProductRecords
                 /\ rec.id = orders[a].body.items.list[i].id
                 /\ line.productId = rec.id
                 /\ line.name = rec.name
                 /\ line.price = rec.price
                 /\ line.image = rec.image

\* An order stored from an edited catalog record, the request claiming
\* another name, price and image.
C5_Witness ==
    \E a \in 1..Len(orders) : \E i \in 1..Len(orders[a].doc.items) :
        /\ orders[a].found[i] = ProductRecord("p1", 2)
        /\ orders[a].body.items.list[i].price # orders[a].doc.items[i].price
        /\ orders[a].body.items.list[i].name # orders[a].doc.items[i].name

\* Whether the characters of s from position i on are all digits.
RECURSIVE AllDigitsFrom(_, _)
AllDigitsFrom(s, i) ==
    i > Len(s) \/ (IsDigit(s[i]) /\ AllDigitsFrom(s, i + 1))

\* A claimed quantity is numeric when it is a number, or a string that reads
\* as one in full: spaces around an optional sign and digits.
IsNumeric(q) ==
    \/ q.k = "num"
    \/ /\ q.k = "str"
       /\ LET t == Trim(q.s)
              u == IF t # <<>> /\ t[1] \in {"-", "+"} THEN Tail(t) ELSE t
          IN  u # <<>> /\ AllDigitsFrom(u, 1)

\* The number of leading digits of s from position i.
RECURSIVE DigitRun(_, _)
DigitRun(s, i) ==
    IF i <= Len(s) /\ IsDigit(s[i]) THEN 1 + DigitRun(s, i + 1) ELSE 0

\* The value of the digits s[1..n].
RECURSIVE DigitsValue(_, _)
DigitsValue(s, n) ==
    IF n = 0 THEN 0 ELSE DigitsValue(s, n - 1) * 10 + DigitValue(s[n])

\* The integer a claimed quantity starts with: the number itself, or the
\* signed digits a string begins with after leading spaces; 0 when it starts
\* with none.
LeadingInteger(q) ==
    IF q.k = "num" THEN q.n
    ELSE IF q.k # "str" THEN 0
    ELSE LET first == CHOOSE i \in 1..(Len(q.s) + 1) :
                          /\ \A j \in 1..(i - 1) : q.s[j] = " "
                          /\ i <= Len(q.s) => q.s[i] # " "
             t == SubSeq(q.s, first, Len(q.s))
             u == IF t # <<>> /\ t[1] \in {"-", "+"} THEN Tail(t) ELSE t
             v == DigitsValue(u, DigitRun(u, 1))
         IN  IF t # <<>> /\ t[1] = "-" THEN -v ELSE v

\* C6 as claimed: every line of every stored order has an integer quantity
\* >= 1, which is 1 whenever the claimed quantity is not numeric or is <= 0.
C6_NonNumericIsOne ==
    \A a \in 1..Len(orders) : \A i \in 1..Len(orders[a].doc.items) :
        LET q == orders[a].body.items.list[i].quantity
            n == orders[a].doc.items[i].quantity
        IN  /\ n \in Nat /\ n >= 1
            /\ (~IsNumeric(q) \/ LeadingInteger(q) <= 0) => n = 1

\* C6 as amended: every line of every stored order has an integer quantity
\* >= 1: the integer the claimed quantity starts with when that is >= 1
\* (whatever follows it), and 1 when it starts with none or with one <= 0.
C6_LeadingIntegerOrOne ==
    \A a \in 1..Len(orders) : \A i \in 1..Len(orders[a].doc.items) :
        LET q == orders[a].body.items.list[i].quantity
            n == orders[a].doc.items[i].quantity
        IN  /\ n \in Nat /\ n >= 1
            /\ n = IF LeadingInteger(q) >= 1 THEN LeadingInteger(q) ELSE 1

\* An order with a line whose quantity was claimed as "abc" and one whose
\* quantity was claimed as a negative number.
C6_Witness ==
    \E a \in 1..Len(orders) : \E i, j \in 1..Len(orders[a].doc.items) :
        /\ orders[a].body.items.list[i].quantity = Str(<<"a", "b", "c">>)
        /\ orders[a].doc.items[i].quantity = 1
        /\ orders[a].doc.total = orders[a].found[i].price + orders[a].found[j].price
        /\ orders[a].body.items.list[j].quantity.n < 0

\* C7: a request with an empty item list is answered 400 'Invalid order
\* payload' by the time the handler first yields, having issued no catalog
\* lookup and no insert; no order comes from it.
C7_EmptyListRejectedFirst ==
    ( /\ call.pc # "idle"
      /\ call.body.items.isArray /\ call.body.items.list = <<>> )
    => /\ Answered
       /\ call.res.status = 400
       /\ call.res.error = "Invalid order payload"
       /\ call.lookups = 0 /\ call.inserts = 0
       /\ orders = <<>>

\* An empty item list posted by an otherwise valid request, and answered.
C7_Witness ==
    /\ Answered
    /\ call.body.items.isArray /\ call.body.items.list = <<>>
    /\ ~MissingCustomerFields(call.body.customer) /\ call.body.customer.present

\* C8: a request whose customer name or e-mail is empty is answered 400
\* with a validation error by the time the handler first yields, with no
\* catalog lookup and no insert; no order comes from it.
C8_EmptyCustomerRejected ==
    ( /\ call.pc # "idle"
      /\ call.body.customer.present
      /\ call.body.customer.name = <<>> \/ call.body.customer.email = <<>> )
    => /\ Answered
       /\ call.res.status = 400
       /\ call.res.error \in {"Customer name and email are required",
                              "Invalid order payload"}
       /\ call.lookups = 0 /\ call.inserts = 0
       /\ orders = <<>>

\* A request with items and a name but an empty e-mail, answered.
C8_Witness ==
    /\ Answered
    /\ call.body.customer.name # <<>> /\ call.body.customer.email = <<>>
    /\ Len(call.body.items.list) > 0
    /\ call.res.error = "Customer name and email are required"

\* Every item of the call's request has been looked up and found, in a
\* request that passed validation.
AllVerified ==
    /\ ~InvalidPayload(call.body) /\ ~MissingCustomerFields(call.body.customer)
    /\ Len(call.found) = Len(call.body.items.list)
    /\ call.lookups = Len(call.body.items.list)

\* C16: the order store changes only by the insertOne of a call all of whose
\* items have been looked up and found, and by one order; a call makes at
\* most one insertOne attempt, and a call that has answered made exactly one
\* if all its lines verified and none otherwise.
C16_ValidateAllThenCommitOnce ==
    [][ /\ call'.inserts <= 1
        /\ orders' # orders =>
              /\ call.pc = "insert" /\ call.inserts = 0 /\ AllVerified
              /\ Len(orders') = Len(orders) + 1
              /\ SubSeq(orders', 1, Len(orders)) = orders
        /\ call'.pc = "done" =>
              call'.inserts = IF AllVerified' THEN 1 ELSE 0 ]_vars

\* A call that looked up two items, found both and made its one insertOne.
C16_Witness ==
    /\ Answered /\ call.res.status = 201
    /\ call.lookups = 2 /\ call.inserts = 1
    /\ Len(orders) >= 1

\* C17: a call that ends with an empty item list, missing customer fields
\* or an item whose identifier resolves to no catalog product answers 400
\* (unless a store failed first); a call answers 500 only when the catalog
\* store or the order store failed; and a call that answers a failure has
\* stored no order.
C17_FailuresClassified ==
    [][ (call'.pc = "done" /\ call' # call) =>
          /\ (InvalidPayload(call'.body) \/ MissingCustomerFields(call'.body.customer))
                => call'.res.status = 400
          /\ ( /\ ~InvalidPayload(call'.body)
               /\ ~MissingCustomerFields(call'.body.customer)
               /\ ~StoreFailed'
               /\ \E j \in 1..Len(call'.body.items.list) : UnknownItem(j)' )
                => call'.res.status = 400
          /\ call'.res.status = 500 => StoreFailed'
          /\ call'.res.status # 201 => orders' = orders ]_vars

\* C19: every insertOne that succeeds appends one order to the store, under
\* an identifier no stored order has, which the response returns; nothing
\* already stored is replaced or merged, whatever the new order's content.
C19_EachSuccessAddsAnOrder ==
    [][ (call.pc = "insert" /\ call'.pc = "done" /\ call'.res.status = 201) =>
          /\ Len(orders') = Len(orders) + 1
          /\ SubSeq(orders', 1, Len(orders)) = orders
          /\ \A a \in 1..Len(orders) : orders[a].id # orders'[Len(orders')].id
          /\ call'.res.orderId = orders'[Len(orders')].id
          /\ orders'[Len(orders')].doc = call.order ]_vars

\* Two stored orders with identical requests and identical documents.
C19_Witness ==
    \E a, b \in 1..Len(orders) :
        /\ a # b
        /\ orders[a].body = orders[b].body
        /\ orders[a].doc = orders[b].doc
        /\ orders[a].id # orders[b].id

\* C22: every stored order has a non-empty customer name and a non-empty
\* customer e-mail, the e-mail being the submitted one trimmed and
\* lower-cased, whatever customer record the accepted request carried.
C22_StoredCustomerNonEmpty ==
    \A a \in 1..Len(orders) :
        /\ orders[a].doc.customer.name # <<>>
        /\ orders[a].doc.customer.email # <<>>
        /\ orders[a].doc.customer.email
             = ToLowerCase(Trim(orders[a].body.customer.email))

(***************************************************************************)
(* Properties of the checkout form.                                        *)
(***************************************************************************)
\* The step is submitOrder handling a 201 response.
SuccessStep ==
    /\ ui.pc = "waiting" /\ Answered /\ call.res.status = 201
    /\ ui'.outcome = "success"

\* A step of the checkout: of submitOrder or of the server's handler.
CheckoutStep == ui' # ui \/ call' # call \/ orders' # orders

\* C9: no step of a checkout changes the cart or its stored copy except
\* submitOrder handling a success response; in particular every step that
\* ends an attempt in failure (form validation, error response, transport
\* error) leaves both exactly as they were.
C9_CartKeptOnFailure ==
    [][ /\ (CheckoutStep /\ ~SuccessStep) => (cart' = cart /\ storage' = storage)
        /\ (ui' # ui /\ ui'.outcome \in {"failed", "invalid"})
             => (cart' = cart /\ storage' = storage) ]_vars

\* A checkout attempt has failed after its order was stored, the cart still
\* holding what was submitted.
C9_Witness ==
    /\ ui.outcome = "failed" /\ ui.pc = "idle"
    /\ Len(orders) = 1
    /\ Len(cart) = Len(orders[1].body.items.list) /\ Len(cart) > 0
    /\ storage = saveCart(cart)

\* C18: at most one checkout request of the form is outstanding, and the
\* submit button is disabled for as long as one is: from the step that sends
\* it until the step that handles its response or its failure.
C18_OneRequestOutstanding ==
    /\ ui.outstanding <= 1
    /\ ui.outstanding = 1 <=> ui.disabled
    /\ ui.pc # "idle" => ui.disabled

\* A request is outstanding, the server is about to store its order, and the
\* form is open with its button disabled.
C18_Witness ==
    /\ ui.outstanding = 1 /\ ui.pc = "waiting"
    /\ ui.open /\ ui.disabled
    /\ call.pc = "insert"

\* C25: every checkout request that is sent is eventually settled with one
\* outcome, success or a reported failure, none left outstanding and the
\* submit button enabled again.
C25_SentEventuallySettles ==
    (ui.pc = "sent") ~>
        ( /\ ui.pc = "idle" /\ ui.outstanding = 0
          /\ ui.outcome \in {"success", "failed"}
          /\ ~ui.disabled )

\* After a failed attempt the form is still open and its button enabled.
C25_Witness ==
    /\ ui.outcome = "failed"
    /\ ui.open /\ ~ui.disabled
    /\ ui.pc = "idle"

\* C26: every stored order of a checkout sent by the form has one line per
\* line of the cart as it was sent (each sent with an integer quantity
\* >= 1), in the same order, with that line's product identifier and
\* quantity.
C26_OrderLinesMatchCart ==
    \A a \in 1..Len(orders) :
        LET sent == orders[a].body.items.list
            kept == orders[a].doc.items
        IN  /\ Len(kept) = Len(sent)
            /\ \A i \in 1..Len(sent) :
                  /\ sent[i].quantity.k = "num" /\ sent[i].quantity.n >= 1
                  /\ kept[i].productId = sent[i].id
                  /\ kept[i].quantity = sent[i].quantity.n

\* An order of two lines, p2 once then p1 twice, as the cart had them.
C26_Witness ==
    /\ Len(orders) = 1
    /\ Len(orders[1].doc.items) = 2
    /\ orders[1].doc.items[1].productId = "p2" /\ orders[1].doc.items[1].quantity = 1
    /\ orders[1].doc.items[2].productId = "p1" /\ orders[1].doc.items[2].quantity = 2

\* C27: when submitOrder handles a success response, the cart it clears is
\* the cart that was sent in that request, line for line.
C27_ClearedCartIsSentCart ==
    [][ SuccessStep =>
          ui.body.items.list = [i \in 1..Len(cart) |-> ItemOfLine(cart[i])] ]_vars

\* C29: once every product request issued has been answered and handled,
\* the loaded product list is the response to the request issued last (when
\* that request got a list), whatever order the responses came in.
C29_LatestFetchWins ==
    (fetches.issued > 0 /\ fetches.inflight = {} /\ fetches.latest.ok)
        => allProducts = fetches.latest.products

====
